---- MODULE Spec2Model ----
(***************************************************************************)
(* Position-and-ledger engine of perpsx-dex.                               *)
(*                                                                         *)
(* Three engines of the repository share one structure and are modelled    *)
(* side by side, selected by `variant`:                                    *)
(*   "reserved"    first App variant  (part_000:9-355),  margin deducted   *)
(*                 at open and returned at close;                          *)
(*   "markToClose" second App variant (part_000:1072-1420), only the PnL   *)
(*                 is settled at close;                                    *)
(*   "engine"      useTradingEngine   (part_001:225-540), margin = size /  *)
(*                 leverage, trading fees.                                 *)
(*                                                                         *)
(* JavaScript numbers are modelled as exact rationals [n, d] (d > 0);      *)
(* null / undefined / '' is the record Null (d = 0).                       *)
(***************************************************************************)
EXTENDS Integers, Sequences, FiniteSets, TLC

VARIABLES variant, balance, positions, prices, clock, opened, lastOp, twin, saved,
          feed, fallbackPrices, rendered, funding

vars == <<variant, balance, positions, prices, clock, opened, lastOp, twin, saved,
          feed, fallbackPrices, rendered, funding>>

----------------------------------------------------------------------------
(* Bounds                                                                  *)

MaxOpens == 1

----------------------------------------------------------------------------
(* Numbers                                                                 *)

Abs(x) == IF x < 0 THEN -x ELSE x

RECURSIVE GCD(_, _)
GCD(a, b) == IF b = 0 THEN a ELSE GCD(b, a % b)

Null == [n |-> 0, d |-> 0]

Norm(n, d) ==
  LET g == GCD(Abs(n), Abs(d))
      s == IF d < 0 THEN -1 ELSE 1
  IN  [n |-> s * (n \div g), d |-> s * (d \div g)]

Rat(i) == [n |-> i, d |-> 1]
Zero == Rat(0)
One == Rat(1)

\* ToNumber: null coerces to 0 in arithmetic and comparisons.
Num(x) == IF x = Null THEN Zero ELSE x

RAdd(a, b) ==
  LET g == GCD(a.d, b.d)
  IN  Norm(a.n * (b.d \div g) + b.n * (a.d \div g), (a.d \div g) * b.d)
RNeg(a) == [n |-> -a.n, d |-> a.d]
RSub(a, b) == RAdd(a, RNeg(b))
RMul(a, b) ==
  LET x == Norm(a.n, b.d)
      y == Norm(b.n, a.d)
  IN  Norm(x.n * y.n, x.d * y.d)
\* b is never zero where the model divides (zero leverage is handled by the caller).
RDiv(a, b) == RMul(a, Norm(b.d, b.n))
RLe(a, b) ==
  LET g == GCD(a.d, b.d)
  IN  a.n * (b.d \div g) <= b.n * (a.d \div g)
RLt(a, b) == ~RLe(b, a)
RGe(a, b) == RLe(b, a)

\* JavaScript truthiness of a number-or-null value.
Truthy(x) == x # Null /\ x.n # 0

----------------------------------------------------------------------------
(* Configuration                                                           *)

Variants == {"reserved", "markToClose", "engine"}
Markets == {"BTC", "ETH", "SOL"}
Directions == {"LONG", "SHORT"}

leverageMap == [SAFE |-> 2, BALANCED |-> 5, DEGENERATE |-> 10]

\* The range of the custom-leverage control: the number input of the first
\* App variant (min 1, max 100) and the slider of the second (min 1, max 200).
MinLeverage == 1
MaxLeverageInput == 100
MaxLeverageSlider == 200

\* The risk amounts of the position-size buttons.
sizes == {10, 50, 100}

\* useState(initialState?.balance ?? 1000): the balance of a fresh account, or
\* the balance restored from the saved snapshot of an earlier session (10 is
\* what is left of 1000 after liquidations of 9 x 100, 50 and 4 x 10;
\* the restored balance is explored for the margin-reserved variant).
InitialBalances == {Rat(1000), Rat(10)}

\* 0.04% trading fee of useTradingEngine.
TRADING_FEE_RATE == Norm(4, 10000)

\* The price snapshot before any feed update (fallbackPrices / priceConfig).
initialPrices == [BTC |-> Rat(95000), ETH |-> Rat(3500), SOL |-> Rat(140)]
noPrices == [BTC |-> Null, ETH |-> Null, SOL |-> Null]

\* Price snapshots the feed may deliver (always one price per market).
PriceSnapshots ==
  { initialPrices,
    [BTC |-> Rat(76000), ETH |-> Rat(3600), SOL |-> Rat(154)],
    [BTC |-> Rat(57000), ETH |-> Rat(4200), SOL |-> Rat(126)] }

\* The UI selections openPosition reads when the button is pressed
\* ('' in an advanced-settings input is Null).
Order(m, dir, ps, rm, adv, cl, lim, tp, sl) ==
  [market |-> m, direction |-> dir, positionSize |-> ps, riskMode |-> rm,
   showAdvanced |-> adv, customLeverage |-> cl,
   orderType |-> IF lim = Null THEN "MARKET" ELSE "LIMIT",
   limitPrice |-> lim, takeProfit |-> tp, stopLoss |-> sl]

\* Plain market orders in both directions.
MarketOrders ==
  { Order("BTC", dir, 50, "BALANCED", FALSE, Null, Null, Null, Null)
      : dir \in Directions }

\* Orders with a stop-loss, with and without a take-profit.
TriggerOrders ==
  { Order("ETH", dir, 50, "DEGENERATE", FALSE, Null, Null, tp, Rat(3600))
      : dir \in Directions, tp \in {Null, Rat(3600)} }

\* A limit order, filled at the limit price.
LimitOrders ==
  { Order("BTC", "SHORT", 100, "SAFE", FALSE, Null, Rat(90000), Null, Null) }

\* Orders with the custom-leverage override.
CustomLeverageOrders ==
  { Order("SOL", "LONG", 50, "BALANCED", TRUE, cl, Null, Null, Null)
      : cl \in {Rat(0), Rat(20), Rat(-5)} }

Orders == MarketOrders \cup TriggerOrders \cup LimitOrders \cup CustomLeverageOrders

\* The orders of the two-position scenarios.
PairOrders ==
  { Order("BTC", "LONG", 50, "BALANCED", FALSE, Null, Null, Null, Null),
    Order("ETH", "SHORT", 100, "DEGENERATE", FALSE, Null, Null, Null, Rat(3600)) }

\* Ids handed to closePosition: every id a position can have, and one none has.
Ids == 1..(MaxOpens + 2)

----------------------------------------------------------------------------
(* openPosition                                                            *)

\* The leverage openPosition uses: the custom override or the risk profile.
SelectLeverage(v, o) ==
  IF v = "markToClose"
  THEN LET customLev == IF o.showAdvanced /\ o.customLeverage # Null
                        THEN o.customLeverage ELSE Null
       IN  IF Truthy(customLev) /\ RLt(Zero, customLev)
           THEN customLev ELSE Rat(leverageMap[o.riskMode])
  ELSE IF o.showAdvanced /\ o.customLeverage # Null
       THEN o.customLeverage ELSE Rat(leverageMap[o.riskMode])

\* The amount the balance check compares against (positionSize / leverage,
\* plus the opening fee in useTradingEngine).  Division by a zero leverage
\* gives Infinity, which every balance is below: see InsufficientBalance.
RequiredBalance(v, o, leverage) ==
  LET initialMargin == RDiv(Rat(o.positionSize), leverage)
  IN  IF v = "engine"
      THEN RAdd(initialMargin, RMul(Rat(o.positionSize), TRADING_FEE_RATE))
      ELSE initialMargin

InsufficientBalance(v, bal, o, leverage) ==
  IF leverage = Zero THEN TRUE
  ELSE RLt(bal, RequiredBalance(v, o, leverage))

\* EntryPrice that fills every order at the market price.
EntryPrice_MarketOnly(o, currentPrice) == currentPrice

EntryPrice(o, currentPrice) ==
  IF o.orderType = "LIMIT" /\ o.limitPrice # Null THEN o.limitPrice
  ELSE currentPrice

\* LiquidationPrice with useTradingEngine's half distance in every variant.
LiquidationPrice_HalfDistance(v, direction, entryPrice, leverage) ==
  LET dist == RDiv(Norm(1, 2), leverage)
  IN  IF direction = "LONG" THEN RMul(entryPrice, RSub(One, dist))
      ELSE RMul(entryPrice, RAdd(One, dist))

LiquidationPrice(v, direction, entryPrice, leverage) ==
  LET dist == IF v = "engine" THEN RDiv(Norm(1, 2), leverage)
              ELSE RDiv(One, leverage)
  IN  IF direction = "LONG" THEN RMul(entryPrice, RSub(One, dist))
      ELSE RMul(entryPrice, RAdd(One, dist))

NewPosition(v, o, currentPrice, leverage, now) ==
  LET entryPrice == EntryPrice(o, currentPrice)
      appEngine == v # "engine"
      riskAmount == Rat(o.positionSize)
      initialMargin == IF appEngine THEN riskAmount
                       ELSE RDiv(Rat(o.positionSize), leverage)
  IN  [id |-> now,
       market |-> o.market,
       entryPrice |-> entryPrice,
       direction |-> o.direction,
       size |-> IF appEngine THEN RMul(riskAmount, leverage)
                ELSE Rat(o.positionSize),
       riskAmount |-> IF appEngine THEN riskAmount ELSE Null,
       leverage |-> leverage,
       initialMargin |-> initialMargin,
       maintenanceMargin |-> IF appEngine THEN Zero
                             ELSE RMul(initialMargin, Norm(1, 2)),
       liquidationPrice |-> LiquidationPrice(v, o.direction, entryPrice, leverage),
       unrealizedPnL |-> Zero,
       takeProfit |-> o.takeProfit,
       stopLoss |-> o.stopLoss,
       closedByTP |-> FALSE, closedBySL |-> FALSE, liquidated |-> FALSE]

\* What is subtracted from the balance when the position is opened.
OpenDebit(v, o, leverage) ==
  CASE v = "reserved"    -> Rat(o.positionSize)
    [] v = "markToClose" -> Zero
    [] v = "engine"      -> RequiredBalance(v, o, leverage)

\* openPosition without the `if (!currentPrice) return` guard: a missing price
\* is used as the number 0.
openPosition_NoPriceGuard(v, bal, poss, prs, o, now) ==
  LET currentPrice == Num(prs[o.market])
      leverage == SelectLeverage(v, o)
  IN  IF InsufficientBalance(v, bal, o, leverage)
      THEN [balance |-> bal, positions |-> poss, res |-> "insufficient"]
      ELSE [balance |-> RSub(bal, OpenDebit(v, o, leverage)),
            positions |-> Append(poss, NewPosition(v, o, currentPrice, leverage, now)),
            res |-> "opened"]

\* Result of openPosition on (balance, positions) with the rendered prices.
openPosition(v, bal, poss, prs, o, now) ==
  LET currentPrice == prs[o.market]
      leverage == SelectLeverage(v, o)
  IN  IF ~Truthy(currentPrice)
      THEN [balance |-> bal, positions |-> poss, res |-> "noPrice"]
      ELSE IF InsufficientBalance(v, bal, o, leverage)
      THEN [balance |-> bal, positions |-> poss, res |-> "insufficient"]
      ELSE [balance |-> RSub(bal, OpenDebit(v, o, leverage)),
            positions |-> Append(poss, NewPosition(v, o, currentPrice, leverage, now)),
            res |-> "opened"]

----------------------------------------------------------------------------
(* Per-tick revaluation                                                    *)

\* Pnl that multiplies by the leverage in every variant, on top of a size
\* that is already notional in the App variants.
Pnl_LeverageTwice(v, pos, currentPrice) ==
  LET priceDiff == RSub(Num(currentPrice), pos.entryPrice)
      multiplier == IF pos.direction = "LONG" THEN One ELSE Rat(-1)
      base == RMul(RDiv(priceDiff, pos.entryPrice), pos.size)
  IN  RMul(RMul(base, pos.leverage), multiplier)

\* pnl of one position at the snapshot's price for its market.
Pnl(v, pos, currentPrice) ==
  LET priceDiff == RSub(Num(currentPrice), pos.entryPrice)
      multiplier == IF pos.direction = "LONG" THEN One ELSE Rat(-1)
      base == RMul(RDiv(priceDiff, pos.entryPrice), pos.size)
  IN  IF v = "engine" THEN RMul(RMul(base, pos.leverage), multiplier)
      ELSE RMul(base, multiplier)

tpHit(pos, currentPrice) ==
  IF pos.direction = "LONG" THEN RGe(Num(currentPrice), pos.takeProfit)
  ELSE RLe(Num(currentPrice), pos.takeProfit)

slHit(pos, currentPrice) ==
  IF pos.direction = "LONG" THEN RLe(Num(currentPrice), pos.stopLoss)
  ELSE RGe(Num(currentPrice), pos.stopLoss)

\* The loss at which the liquidation check fires.
LossThreshold(v, pos) ==
  IF v = "engine" THEN RSub(pos.initialMargin, pos.maintenanceMargin)
  ELSE IF Truthy(pos.riskAmount) THEN pos.riskAmount ELSE pos.initialMargin

\* LiquidatedPnl without the clamp: the loss of the whole notional size.
LiquidatedPnl_Notional(v, pos) == RNeg(pos.size)

\* unrealizedPnL stored on a liquidated position.
LiquidatedPnl(v, pos) ==
  IF v = "engine" THEN RNeg(pos.size) ELSE RNeg(LossThreshold(v, pos))

\* Evaluate with the stop-loss check ahead of the take-profit check.
Evaluate_StopLossFirst(v, pos, prs) ==
  LET currentPrice == prs[pos.market]
      pnl == Pnl(v, pos, currentPrice)
  IN  IF Truthy(pos.stopLoss) /\ slHit(pos, currentPrice)
      THEN [pos EXCEPT !.unrealizedPnL = pnl, !.closedBySL = TRUE]
      ELSE IF Truthy(pos.takeProfit) /\ tpHit(pos, currentPrice)
      THEN [pos EXCEPT !.unrealizedPnL = pnl, !.closedByTP = TRUE]
      ELSE IF RLe(pnl, RNeg(LossThreshold(v, pos)))
      THEN [pos EXCEPT !.unrealizedPnL = LiquidatedPnl(v, pos), !.liquidated = TRUE]
      ELSE [pos EXCEPT !.unrealizedPnL = pnl]

\* Evaluate that derives the liquidation price of a position that stays open
\* from the tick price again.
Evaluate_RecomputesLiquidation(v, pos, prs) ==
  LET currentPrice == prs[pos.market]
      pnl == Pnl(v, pos, currentPrice)
  IN  IF Truthy(pos.takeProfit) /\ tpHit(pos, currentPrice)
      THEN [pos EXCEPT !.unrealizedPnL = pnl, !.closedByTP = TRUE]
      ELSE IF Truthy(pos.stopLoss) /\ slHit(pos, currentPrice)
      THEN [pos EXCEPT !.unrealizedPnL = pnl, !.closedBySL = TRUE]
      ELSE IF RLe(pnl, RNeg(LossThreshold(v, pos)))
      THEN [pos EXCEPT !.unrealizedPnL = LiquidatedPnl(v, pos), !.liquidated = TRUE]
      ELSE [pos EXCEPT !.unrealizedPnL = pnl,
                       !.liquidationPrice =
                          LiquidationPrice(v, pos.direction, Num(currentPrice),
                                           pos.leverage)]

\* Evaluate with the liquidation check ahead of the two triggers.
Evaluate_LiquidationFirst(v, pos, prs) ==
  LET currentPrice == prs[pos.market]
      pnl == Pnl(v, pos, currentPrice)
  IN  IF RLe(pnl, RNeg(LossThreshold(v, pos)))
      THEN [pos EXCEPT !.unrealizedPnL = LiquidatedPnl(v, pos), !.liquidated = TRUE]
      ELSE IF Truthy(pos.takeProfit) /\ tpHit(pos, currentPrice)
      THEN [pos EXCEPT !.unrealizedPnL = pnl, !.closedByTP = TRUE]
      ELSE IF Truthy(pos.stopLoss) /\ slHit(pos, currentPrice)
      THEN [pos EXCEPT !.unrealizedPnL = pnl, !.closedBySL = TRUE]
      ELSE [pos EXCEPT !.unrealizedPnL = pnl]

\* Evaluate that adds the tick's pnl to the stored unrealizedPnL.
Evaluate_AccumulatesPnl(v, pos, prs) ==
  LET currentPrice == prs[pos.market]
      pnl == Pnl(v, pos, currentPrice)
  IN  IF Truthy(pos.takeProfit) /\ tpHit(pos, currentPrice)
      THEN [pos EXCEPT !.unrealizedPnL = pnl, !.closedByTP = TRUE]
      ELSE IF Truthy(pos.stopLoss) /\ slHit(pos, currentPrice)
      THEN [pos EXCEPT !.unrealizedPnL = pnl, !.closedBySL = TRUE]
      ELSE IF RLe(pnl, RNeg(LossThreshold(v, pos)))
      THEN [pos EXCEPT !.unrealizedPnL = LiquidatedPnl(v, pos), !.liquidated = TRUE]
      ELSE [pos EXCEPT !.unrealizedPnL = RAdd(pos.unrealizedPnL, pnl)]

\* Evaluate without the stop-loss check.
Evaluate_NoStopLoss(v, pos, prs) ==
  LET currentPrice == prs[pos.market]
      pnl == Pnl(v, pos, currentPrice)
  IN  IF Truthy(pos.takeProfit) /\ tpHit(pos, currentPrice)
      THEN [pos EXCEPT !.unrealizedPnL = pnl, !.closedByTP = TRUE]
      ELSE IF RLe(pnl, RNeg(LossThreshold(v, pos)))
      THEN [pos EXCEPT !.unrealizedPnL = LiquidatedPnl(v, pos), !.liquidated = TRUE]
      ELSE [pos EXCEPT !.unrealizedPnL = pnl]

\* The body of prevPositions.map(...): one position against one snapshot.
Evaluate(v, pos, prs) ==
  LET currentPrice == prs[pos.market]
      pnl == Pnl(v, pos, currentPrice)
  IN  IF Truthy(pos.takeProfit) /\ tpHit(pos, currentPrice)
      THEN [pos EXCEPT !.unrealizedPnL = pnl, !.closedByTP = TRUE]
      ELSE IF Truthy(pos.stopLoss) /\ slHit(pos, currentPrice)
      THEN [pos EXCEPT !.unrealizedPnL = pnl, !.closedBySL = TRUE]
      ELSE IF RLe(pnl, RNeg(LossThreshold(v, pos)))
      THEN [pos EXCEPT !.unrealizedPnL = LiquidatedPnl(v, pos), !.liquidated = TRUE]
      ELSE [pos EXCEPT !.unrealizedPnL = pnl]

\* IsClosed that forgets the liquidated flag.
IsClosed_TriggersOnly(pos) == pos.closedByTP \/ pos.closedBySL

IsClosed(pos) == pos.liquidated \/ pos.closedByTP \/ pos.closedBySL

\* array.reduce((sum, x) => sum + x, 0) over a sequence of numbers.
RECURSIVE Sum(_)
Sum(seq) == IF seq = <<>> THEN Zero ELSE RAdd(Head(seq), Sum(Tail(seq)))

\* CloseCredit that returns the margin in every variant.
CloseCredit_MarginReturned(v, p) == RAdd(p.initialMargin, p.unrealizedPnL)

\* What one closed position returns to the balance.
CloseCredit(v, p) ==
  CASE v = "reserved"    -> RAdd(p.initialMargin, p.unrealizedPnL)
    [] v = "markToClose" -> p.unrealizedPnL
    [] v = "engine"      -> RAdd(p.initialMargin, p.unrealizedPnL)

\* The effect on [prices]: revalue, settle the closed ones, keep the open ones.
tick(v, bal, poss, prs) ==
  IF Len(poss) > 0 /\ Truthy(prs.BTC)
  THEN LET updatedPositions == [i \in 1..Len(poss) |-> Evaluate(v, poss[i], prs)]
           closedPositions == SelectSeq(updatedPositions, IsClosed)
           NotClosed(p) == ~IsClosed(p)
           totalReturn == Sum([i \in 1..Len(closedPositions) |->
                                 CloseCredit(v, closedPositions[i])])
       IN  [balance |-> IF Len(closedPositions) > 0
                        THEN RAdd(bal, totalReturn) ELSE bal,
            positions |-> SelectSeq(updatedPositions, NotClosed),
            closed |-> closedPositions]
  ELSE [balance |-> bal, positions |-> poss, closed |-> <<>>]

\* setBalance(b => b + totalReturn) is called inside the setPositions updater:
\* every invocation of the updater queues the credit again.  React invokes an
\* updater once, or twice in a row on the same prevPositions under StrictMode.
UpdaterRuns == {1, 2}

tickRerun(v, bal, poss, prs, runs) ==
  IF Len(poss) > 0 /\ Truthy(prs.BTC)
  THEN LET updatedPositions == [i \in 1..Len(poss) |-> Evaluate(v, poss[i], prs)]
           closedPositions == SelectSeq(updatedPositions, IsClosed)
           NotClosed(p) == ~IsClosed(p)
           totalReturn == Sum([i \in 1..Len(closedPositions) |->
                                 CloseCredit(v, closedPositions[i])])
           \* one queued b => b + totalReturn per invocation of the updater
           queued == RMul(Rat(runs), totalReturn)
       IN  [balance |-> IF Len(closedPositions) > 0
                        THEN RAdd(bal, queued) ELSE bal,
            positions |-> SelectSeq(updatedPositions, NotClosed),
            closed |-> closedPositions]
  ELSE [balance |-> bal, positions |-> poss, closed |-> <<>>]

----------------------------------------------------------------------------
(* Manual closing                                                          *)

\* positions.find(p => p.id === positionId): index of the first match, or 0.
FindIndex(poss, positionId) ==
  IF \E i \in 1..Len(poss) : poss[i].id = positionId
  THEN CHOOSE i \in 1..Len(poss) :
         /\ poss[i].id = positionId
         /\ \A j \in 1..(i - 1) : poss[j].id # positionId
  ELSE 0

CloseFee(v, p) ==
  IF v = "engine" THEN RMul(p.size, TRADING_FEE_RATE) ELSE Zero

\* The second App variant logs `margin` / `totalMargin`, which are not
\* defined in its scope: the handler throws after queueing its updates.
CloseThrows(v) == v = "markToClose"

\* closePosition without the `if (!pos) return` guard: reading a field of the
\* missing position throws before any update is queued.
closePosition_Unguarded(v, bal, poss, positionId) ==
  LET i == FindIndex(poss, positionId)
      Others(p) == p.id # positionId
  IN  IF i = 0
      THEN [balance |-> bal, positions |-> poss, closed |-> <<>>,
            res |-> "notFound", threw |-> TRUE]
      ELSE [balance |-> RSub(RAdd(bal, CloseCredit(v, poss[i])), CloseFee(v, poss[i])),
            positions |-> SelectSeq(poss, Others),
            closed |-> <<poss[i]>>,
            res |-> "closed", threw |-> CloseThrows(v)]

closePosition(v, bal, poss, positionId) ==
  LET i == FindIndex(poss, positionId)
      Others(p) == p.id # positionId
  IN  IF i = 0
      THEN [balance |-> bal, positions |-> poss, closed |-> <<>>,
            res |-> "notFound", threw |-> FALSE]
      ELSE [balance |-> RSub(RAdd(bal, CloseCredit(v, poss[i])), CloseFee(v, poss[i])),
            positions |-> SelectSeq(poss, Others),
            closed |-> <<poss[i]>>,
            res |-> "closed", threw |-> CloseThrows(v)]

closeAllPositions(v, bal, poss) ==
  LET totalCredit == Sum([i \in 1..Len(poss) |-> CloseCredit(v, poss[i])])
      totalCloseFees == Sum([i \in 1..Len(poss) |-> CloseFee(v, poss[i])])
  IN  [balance |-> RSub(RAdd(bal, totalCredit), totalCloseFees),
       positions |-> <<>>,
       closed |-> poss,
       res |-> "closedAll", threw |-> CloseThrows(v)]

----------------------------------------------------------------------------
(* The price feed: useLivePrices                                           *)

\* Three versions of the hook: CoinGecko, CoinGecko with high/low, Kraken.
FeedVersions == {"coingecko", "coingeckoHighLow", "kraken"}

\* The hook is called with maxHistoryPoints = 50; the model keeps a shorter
\* history so that the window slides within a few fetches.
maxHistoryPoints == 2
\* Fetches started in one run, and fetches that may be awaiting a response.
MaxFetches == 4
MaxInFlight == 2

\* A quote is decimal text in the response body: m / 10^e.  CoinGecko sends
\* it as a JSON number, Kraken as a string ("a": ["68000.5", ...]).
Quote(m, e) == [m |-> m, e |-> e]
NoQuote == [m |-> 0, e |-> -1]
Pow10(e) == IF e = 0 THEN 1 ELSE IF e = 1 THEN 10 ELSE 100
\* response.json() on a number literal, parseFloat on a numeric string.
parseFloat(q) == Norm(q.m, Pow10(q.e))

Body(btc, eth, sol) == [BTC |-> btc, ETH |-> eth, SOL |-> sol]
Bodies ==
  { Body(Quote(68000, 0), Quote(35005, 1), Quote(140, 0)),
    Body(Quote(681005, 1), Quote(35005, 1), Quote(141, 0)),
    Body(Quote(67900, 0), NoQuote, NoQuote),
    Body(NoQuote, NoQuote, NoQuote),
    Body(Quote(68000, 0), Quote(0, 0), Quote(140, 0)) }

\* The ways a fetch fails: fetch() rejects, the response is not OK, the body
\* carries a non-empty error list (Kraken's body format only).
Failures(version) ==
  {"networkError", "notOk"} \cup (IF version = "kraken" THEN {"apiError"} ELSE {})
errorMessage(version, failure) ==
  CASE failure = "networkError" -> "Failed to fetch"
    [] failure = "notOk" ->
         IF version = "kraken" THEN "Kraken API error: 500"
                               ELSE "CoinGecko API error: 500"
    [] failure = "apiError" -> "EGeneral:Internal error"
NoError == "null"

noHistory == [s \in Markets |-> <<>>]
noHighLow == [s \in Markets |-> [high |-> Null, low |-> Null]]

initialFeed(version) ==
  [ version |-> version,
    prices |-> noPrices,
    priceHistory |-> noHistory,
    highLow |-> noHighLow,
    isLoading |-> TRUE,
    error |-> NoError,
    lastFetchTime |-> Null,
    \* fetchPrices calls awaiting their response, each with the priceHistory
    \* and isLoading of the render that created the callback
    inFlight |-> <<>>,
    started |-> 0,
    now |-> 0,
    \* every quote OK responses have carried, per symbol, in arrival order
    fetched |-> noHistory,
    last |-> [kind |-> "none", failure |-> "none", body |-> Body(NoQuote, NoQuote, NoQuote)] ]

\* newPrices: the symbols a response body yields a price for (Null: none).
newPrices(version, body) ==
  [s \in Markets |->
     IF body[s] = NoQuote THEN Null
     ELSE IF version = "kraken" THEN parseFloat(body[s])
     ELSE IF Truthy(parseFloat(body[s])) THEN parseFloat(body[s]) ELSE Null]

\* Array.prototype.slice(-n): the last n elements.
SliceLast(seq, n) ==
  IF Len(seq) <= n THEN seq ELSE SubSeq(seq, Len(seq) - n + 1, Len(seq))

RMax(seq) == CHOOSE x \in {seq[i] : i \in 1..Len(seq)} :
               \A i \in 1..Len(seq) : RLe(seq[i], x)
RMin(seq) == CHOOSE x \in {seq[i] : i \in 1..Len(seq)} :
               \A i \in 1..Len(seq) : RLe(x, seq[i])

Without(seq, i) == SubSeq(seq, 1, i - 1) \o SubSeq(seq, i + 1, Len(seq))

\* An interval firing or the mount effect calls fetchPrices.
fetchStart(f) ==
  [f EXCEPT !.inFlight = Append(@, [priceHistory |-> f.priceHistory,
                                    isLoading |-> f.isLoading]),
            !.started = @ + 1,
            !.last = [initialFeed(f.version).last EXCEPT !.kind = "start"]]

fetchFailed_ClearsPrices(f, i, failure) ==
  [f EXCEPT !.error = errorMessage(f.version, failure),
            !.prices = noPrices,
            !.isLoading = IF f.inFlight[i].isLoading THEN FALSE ELSE @,
            !.inFlight = Without(@, i),
            !.last = [initialFeed(f.version).last EXCEPT
                        !.kind = "failed", !.failure = failure]]

\* The catch block of fetchPrices.
fetchFailed(f, i, failure) ==
  [f EXCEPT !.error = errorMessage(f.version, failure),
            !.isLoading = IF f.inFlight[i].isLoading THEN FALSE ELSE @,
            !.inFlight = Without(@, i),
            !.last = [initialFeed(f.version).last EXCEPT
                        !.kind = "failed", !.failure = failure]]

\* The try block of fetchPrices once the body has arrived.
fetchSucceeded(f, i, body) ==
  LET new == newPrices(f.version, body)
      got == {s \in Markets : new[s] # Null}
      \* the CoinGecko hook without high/low updates unconditionally; with
      \* nothing in newPrices the updates change nothing
      closure == f.inFlight[i]
      currentTime == f.now + 1
  IN  [f EXCEPT
         !.prices = [s \in Markets |-> IF s \in got THEN new[s] ELSE @[s]],
         !.priceHistory =
            [s \in Markets |->
               IF s \in got THEN SliceLast(Append(@[s], new[s]), maxHistoryPoints)
               ELSE @[s]],
         !.highLow =
            [s \in Markets |->
               IF s \in got /\ f.version # "coingecko"
               THEN LET allPrices == Append(closure.priceHistory[s], new[s])
                    IN  [high |-> RMax(allPrices), low |-> RMin(allPrices)]
               ELSE @[s]],
         !.error = NoError,
         !.lastFetchTime = Rat(currentTime),
         !.isLoading = FALSE,
         !.now = currentTime,
         !.inFlight = Without(@, i),
         !.fetched = [s \in Markets |->
                        IF body[s] # NoQuote THEN Append(@[s], parseFloat(body[s]))
                        ELSE @[s]],
         !.last = [kind |-> "ok", failure |-> "none", body |-> body]]

----------------------------------------------------------------------------
(* State machine                                                           *)

NoOp == [op |-> "none", res |-> "none", threw |-> FALSE, closed |-> <<>>]

\* twin is the account of a second engine fed the same inputs (SpecSide);
\* a single engine has none.
NoTwin == [balance |-> Null, positions |-> <<>>, agree |-> TRUE]

\* JsonNumber that writes numbers with two decimals, as toFixed(2) does.
JsonNumber_Fixed2(x) ==
  IF x = Null THEN [json |-> "null", n |-> 0, d |-> 0]
  ELSE [json |-> "number", n |-> (x.n * 100) \div x.d, d |-> 100]

\* JSON.stringify writes a finite number as a decimal text that parses back
\* to the same number, and null as null.
JsonNumber(x) ==
  IF x = Null THEN [json |-> "null", n |-> 0, d |-> 0]
  ELSE [json |-> "number", n |-> x.n, d |-> x.d]
ParseNumber(j) == IF j.json = "null" THEN Null ELSE Norm(j.n, j.d)

\* One open position in the saved text.  The closedByTP / closedBySL /
\* liquidated marks are not set on an open position and so are not written.
JsonPosition(p) ==
  [id |-> p.id, market |-> p.market, direction |-> p.direction,
   entryPrice |-> JsonNumber(p.entryPrice), size |-> JsonNumber(p.size),
   riskAmount |-> JsonNumber(p.riskAmount), leverage |-> JsonNumber(p.leverage),
   initialMargin |-> JsonNumber(p.initialMargin),
   maintenanceMargin |-> JsonNumber(p.maintenanceMargin),
   liquidationPrice |-> JsonNumber(p.liquidationPrice),
   unrealizedPnL |-> JsonNumber(p.unrealizedPnL),
   takeProfit |-> JsonNumber(p.takeProfit), stopLoss |-> JsonNumber(p.stopLoss)]
ParsePosition(j) ==
  [id |-> j.id, market |-> j.market, direction |-> j.direction,
   entryPrice |-> ParseNumber(j.entryPrice), size |-> ParseNumber(j.size),
   riskAmount |-> ParseNumber(j.riskAmount), leverage |-> ParseNumber(j.leverage),
   initialMargin |-> ParseNumber(j.initialMargin),
   maintenanceMargin |-> ParseNumber(j.maintenanceMargin),
   liquidationPrice |-> ParseNumber(j.liquidationPrice),
   unrealizedPnL |-> ParseNumber(j.unrealizedPnL),
   takeProfit |-> ParseNumber(j.takeProfit), stopLoss |-> ParseNumber(j.stopLoss),
   closedByTP |-> FALSE, closedBySL |-> FALSE, liquidated |-> FALSE]

\* localStorage 'perpsx_state': nothing, or the text of the last saved state.
NoSnapshot == [present |-> FALSE, balance |-> JsonNumber(Null), positions |-> <<>>]
Stringify(bal, poss) ==
  [present |-> TRUE, balance |-> JsonNumber(bal),
   positions |-> [i \in 1..Len(poss) |-> JsonPosition(poss[i])]]

\* getInitialState and the useState initialisers: the saved balance and
\* positions, or the defaults (?? 1000, ?? []).
getInitialState(snapshot) ==
  IF snapshot.present
  THEN [balance |-> IF ParseNumber(snapshot.balance) = Null THEN Rat(1000)
                    ELSE ParseNumber(snapshot.balance),
        positions |-> [i \in 1..Len(snapshot.positions) |->
                         ParsePosition(snapshot.positions[i])]]
  ELSE [balance |-> Rat(1000), positions |-> <<>>]

\* The auto-save effect runs after every render that changed balance or
\* positions (the two App variants; useTradingEngine saves nothing).
AutoSave ==
  saved' = IF variant \in {"reserved", "markToClose"}
           THEN Stringify(balance', positions') ELSE saved

\* What surrounds the account and stays as it is unless a specification
\* below drives it: the fallback price state, the balance and positions of the
\* render the handlers were created in, and the funding timer.
NoFunding == [since |-> 0, unfunded |-> 0]
Surroundings ==
  /\ fallbackPrices = initialPrices
  /\ rendered = [balance |-> balance, positions |-> <<>>]
  /\ funding = NoFunding

Init ==
  /\ variant \in Variants
  /\ balance \in (IF variant = "reserved" THEN InitialBalances ELSE {Rat(1000)})
  /\ positions = <<>>
  /\ prices = IF variant = "engine" THEN noPrices ELSE initialPrices
  /\ clock = 0
  /\ opened = 0
  /\ lastOp = NoOp
  /\ twin = NoTwin
  /\ saved = IF variant \in {"reserved", "markToClose"}
             THEN Stringify(balance, positions) ELSE NoSnapshot
  /\ feed = initialFeed("coingecko")
  /\ Surroundings

\* useTradingEngine's mount effect publishes the configured initial prices.
InitPrices ==
  /\ variant = "engine"
  /\ prices = noPrices
  /\ prices' = initialPrices
  /\ lastOp' = [NoOp EXCEPT !.op = "initPrices"]
  /\ UNCHANGED <<fallbackPrices, rendered, funding, feed, twin, variant, balance, positions, clock, opened>>
  /\ AutoSave

\* A new price snapshot is rendered and the effect on [prices] runs.
PriceTick(snapshot) ==
  /\ variant = "engine" => prices # noPrices
  /\ LET r == tick(variant, balance, positions, snapshot)
     IN  /\ prices' = snapshot
         /\ balance' = r.balance
         /\ positions' = r.positions
         /\ lastOp' = [op |-> "tick", res |-> "tick", threw |-> FALSE,
                       closed |-> r.closed]
  /\ UNCHANGED <<fallbackPrices, rendered, funding, feed, twin, variant, clock, opened>>
  /\ AutoSave

\* The page is loaded again: the state is constructed from the saved text and
\* the price state starts over from the fallback prices.
Reload ==
  /\ variant \in {"reserved", "markToClose"}
  /\ LET initialState == getInitialState(saved)
     IN  /\ balance' = initialState.balance
         /\ positions' = initialState.positions
  /\ prices' = initialPrices
  /\ lastOp' = [NoOp EXCEPT !.op = "reload"]
  /\ UNCHANGED <<fallbackPrices, rendered, funding, feed, twin, variant, clock, opened>>
  /\ AutoSave

\* Time passed since the last Date.now() reading taken for an id (clock);
\* clock = 0 stands for "no reading yet", so the first reading is 1.
Elapsed == IF clock = 0 THEN {1} ELSE {0, 1}

\* The Open button.
OpenPosition(o, dt, maxOpens) ==
  /\ opened < maxOpens
  /\ LET now == clock + dt
         r == openPosition(variant, balance, positions, prices, o, now)
     IN  /\ clock' = IF r.res = "opened" THEN now ELSE clock
         /\ balance' = r.balance
         /\ positions' = r.positions
         /\ opened' = IF r.res = "opened" THEN opened + 1 ELSE opened
         /\ lastOp' = [op |-> "open", res |-> r.res, threw |-> FALSE,
                       closed |-> <<>>]
  /\ UNCHANGED <<fallbackPrices, rendered, funding, feed, twin, variant, prices>>
  /\ AutoSave

ClosePosition(positionId) ==
  /\ LET r == closePosition(variant, balance, positions, positionId)
     IN  /\ balance' = r.balance
         /\ positions' = r.positions
         /\ lastOp' = [op |-> "close", res |-> r.res, threw |-> r.threw,
                       closed |-> r.closed]
  /\ UNCHANGED <<fallbackPrices, rendered, funding, feed, twin, variant, prices, clock, opened>>
  /\ AutoSave

CloseAllPositions ==
  /\ LET r == closeAllPositions(variant, balance, positions)
     IN  /\ balance' = r.balance
         /\ positions' = r.positions
         /\ lastOp' = [op |-> "closeAll", res |-> r.res, threw |-> r.threw,
                       closed |-> r.closed]
  /\ UNCHANGED <<fallbackPrices, rendered, funding, feed, twin, variant, prices, clock, opened>>
  /\ AutoSave

Next ==
  \/ InitPrices
  \/ Reload
  \/ \E snapshot \in PriceSnapshots : PriceTick(snapshot)
  \/ \E o \in Orders, dt \in Elapsed : OpenPosition(o, dt, MaxOpens)
  \/ \E positionId \in Ids : ClosePosition(positionId)
  \/ CloseAllPositions

Spec == Init /\ [][Next]_vars

\* The same engine driven with one more open and the two-position orders.
NextPair ==
  \/ InitPrices
  \/ \E snapshot \in PriceSnapshots : PriceTick(snapshot)
  \/ \E o \in PairOrders, dt \in Elapsed : OpenPosition(o, dt, MaxOpens + 1)
  \/ \E positionId \in Ids : ClosePosition(positionId)
  \/ CloseAllPositions

SpecPair == Init /\ [][NextPair]_vars

\* The engine fed snapshots that lack a price: for one market, or for all.
\* (The prices state holds null per symbol until a price is known.)
PartialSnapshots ==
  { [initialPrices EXCEPT !.ETH = Null], noPrices }

NextPartial ==
  \/ InitPrices
  \/ Reload
  \/ \E snapshot \in PriceSnapshots \cup PartialSnapshots : PriceTick(snapshot)
  \/ \E o \in Orders, dt \in Elapsed : OpenPosition(o, dt, MaxOpens)
  \/ \E positionId \in Ids : ClosePosition(positionId)
  \/ CloseAllPositions

SpecPartial == Init /\ [][NextPartial]_vars

\* useTradingEngine with its two timers.  Time advances by the period of the
\* price interval; the funding interval is created by an effect on
\* [positions], so it is cleared and created again whenever the positions
\* state is replaced: by openPosition, and by the tick, whose updater returns
\* a new array whenever there is a position.
FUNDING_INTERVAL == 30000
FUNDING_RATE == Norm(1, 10000)
PRICE_INTERVAL == 1500

\* The balance after the funding callback, run on the positions of the render
\* that created the interval.
fundingPayment(bal, poss) ==
  LET fundingCost(pos) ==
        RMul(RMul(pos.size, FUNDING_RATE),
             IF pos.direction = "LONG" THEN One ELSE Rat(-1))
      totalFundingCost == Sum([i \in 1..Len(poss) |-> fundingCost(poss[i])])
  IN  RSub(bal, totalFundingCost)

InitFunding ==
  /\ Init
  /\ variant = "engine"

\* PRICE_INTERVAL ms pass.  The funding interval fires if it has been alive for
\* FUNDING_INTERVAL ms; the price interval fires and the tick effect runs.
PriceInterval(snapshot) ==
  /\ variant = "engine" /\ prices # noPrices
  /\ LET due == funding.since + PRICE_INTERVAL >= FUNDING_INTERVAL
         paid == due /\ Len(positions) > 0
         afterFunding == IF paid THEN fundingPayment(balance, positions) ELSE balance
         r == tick(variant, afterFunding, positions, snapshot)
         recreated == Len(positions) > 0
         waited == funding.unfunded + PRICE_INTERVAL
     IN  /\ prices' = snapshot
         /\ balance' = r.balance
         /\ positions' = r.positions
         /\ funding' = [since |-> IF recreated \/ due THEN 0
                                  ELSE funding.since + PRICE_INTERVAL,
                        unfunded |-> IF Len(r.positions) = 0 \/ paid THEN 0
                                     ELSE IF waited > FUNDING_INTERVAL
                                     THEN FUNDING_INTERVAL ELSE waited]
         /\ lastOp' = [op |-> "tick", res |-> IF paid THEN "funded" ELSE "tick",
                       threw |-> FALSE, closed |-> r.closed]
  /\ UNCHANGED <<fallbackPrices, rendered, feed, twin, saved, variant, clock, opened>>

FundingOpenPosition(o, dt, maxOpens) ==
  /\ variant = "engine"
  /\ opened < maxOpens
  /\ LET now == clock + dt
         r == openPosition(variant, balance, positions, prices, o, now)
     IN  /\ clock' = IF r.res = "opened" THEN now ELSE clock
         /\ balance' = r.balance
         /\ positions' = r.positions
         /\ opened' = IF r.res = "opened" THEN opened + 1 ELSE opened
         /\ funding' = IF r.res = "opened"
                       THEN [since |-> 0,
                             unfunded |-> IF positions = <<>> THEN 0
                                          ELSE funding.unfunded]
                       ELSE funding
         /\ lastOp' = [op |-> "open", res |-> r.res, threw |-> FALSE,
                       closed |-> <<>>]
  /\ UNCHANGED <<fallbackPrices, rendered, feed, twin, saved, variant, prices>>

NextFunding ==
  \/ InitPrices
  \/ \E snapshot \in PriceSnapshots : PriceInterval(snapshot)
  \/ \E o \in Orders, dt \in Elapsed : FundingOpenPosition(o, dt, MaxOpens)

SpecFunding == InitFunding /\ [][NextFunding]_vars

\* The App with its handlers one render behind.  A tick runs in an effect,
\* after a render, and queues its updates; until the next render the buttons
\* call the handlers of the render before the tick, which read `positions`
\* and `balance` as they were then, while their updater functions act on the
\* state as it is now.  A click is followed by a render at once.
Current == [balance |-> balance, positions |-> positions]

InitStale ==
  /\ Init
  /\ variant \in {"reserved", "markToClose"}

PendingTick(snapshot) ==
  /\ rendered = Current
  /\ LET r == tick(variant, balance, positions, snapshot)
     IN  /\ prices' = snapshot
         /\ balance' = r.balance
         /\ positions' = r.positions
         /\ lastOp' = [op |-> "tick", res |-> "tick", threw |-> FALSE,
                       closed |-> r.closed]
  /\ UNCHANGED <<fallbackPrices, rendered, funding, feed, twin, variant, clock, opened>>
  /\ AutoSave

Render ==
  /\ rendered # Current
  /\ rendered' = Current
  /\ lastOp' = [NoOp EXCEPT !.op = "render"]
  /\ UNCHANGED <<fallbackPrices, funding, feed, twin, variant, balance, positions,
                 prices, clock, opened>>
  /\ AutoSave

\* openPosition of the rendered handlers: the balance check reads the rendered
\* balance, the updaters debit and append to the current state.
RenderedOpenPosition(o, dt, maxOpens) ==
  /\ opened < maxOpens
  /\ LET now == clock + dt
         r == openPosition(variant, rendered.balance, positions, prices, o, now)
         accepted == r.res = "opened"
     IN  /\ clock' = IF accepted THEN now ELSE clock
         /\ balance' = IF accepted
                       THEN RSub(balance, OpenDebit(variant, o, SelectLeverage(variant, o)))
                       ELSE balance
         /\ positions' = r.positions
         /\ opened' = IF accepted THEN opened + 1 ELSE opened
         /\ lastOp' = [op |-> "open", res |-> r.res, threw |-> FALSE,
                       closed |-> <<>>]
  /\ rendered' = [balance |-> balance', positions |-> positions']
  /\ UNCHANGED <<fallbackPrices, funding, feed, twin, variant, prices>>
  /\ AutoSave

\* closePosition of the rendered handlers: the position is looked up in the
\* rendered positions, the credit and the filter are applied to the state.
RenderedClosePosition(positionId) ==
  /\ LET i == FindIndex(rendered.positions, positionId)
         Others(p) == p.id # positionId
     IN  IF i = 0
         THEN /\ balance' = balance
              /\ positions' = positions
              /\ lastOp' = [op |-> "close", res |-> "notFound", threw |-> FALSE,
                            closed |-> <<>>]
         ELSE /\ balance' = RAdd(balance, CloseCredit(variant, rendered.positions[i]))
              /\ positions' = SelectSeq(positions, Others)
              /\ lastOp' = [op |-> "close", res |-> "closed",
                            threw |-> CloseThrows(variant),
                            closed |-> <<rendered.positions[i]>>]
  /\ rendered' = [balance |-> balance', positions |-> positions']
  /\ UNCHANGED <<fallbackPrices, funding, feed, twin, variant, prices, clock, opened>>
  /\ AutoSave

RenderedCloseAllPositions ==
  /\ balance' = RAdd(balance,
                     Sum([i \in 1..Len(rendered.positions) |->
                            CloseCredit(variant, rendered.positions[i])]))
  /\ positions' = <<>>
  /\ lastOp' = [op |-> "closeAll", res |-> "closedAll",
                threw |-> CloseThrows(variant), closed |-> rendered.positions]
  /\ rendered' = [balance |-> balance', positions |-> positions']
  /\ UNCHANGED <<fallbackPrices, funding, feed, twin, variant, prices, clock, opened>>
  /\ AutoSave

NextStale ==
  \/ \E snapshot \in PriceSnapshots : PendingTick(snapshot)
  \/ Render
  \/ \E o \in Orders : RenderedOpenPosition(o, 1, MaxOpens)
  \/ \E positionId \in Ids : RenderedClosePosition(positionId)
  \/ RenderedCloseAllPositions

SpecStale == InitStale /\ [][NextStale]_vars

\* A price snapshot rendered by a React tree that re-invokes updaters.
PriceTickRerun(snapshot, runs) ==
  /\ variant = "engine" => prices # noPrices
  /\ LET r == tickRerun(variant, balance, positions, snapshot, runs)
     IN  /\ prices' = snapshot
         /\ balance' = r.balance
         /\ positions' = r.positions
         /\ lastOp' = [op |-> "tick", res |-> IF runs = 1 THEN "tick" ELSE "rerun",
                       threw |-> FALSE, closed |-> r.closed]
  /\ UNCHANGED <<fallbackPrices, rendered, funding, feed, twin, variant, clock, opened>>
  /\ AutoSave

\* The engine under a tree that may invoke the tick's updater twice.
NextStrict ==
  \/ InitPrices
  \/ \E snapshot \in PriceSnapshots, runs \in UpdaterRuns :
       PriceTickRerun(snapshot, runs)
  \/ \E o \in Orders, dt \in Elapsed : OpenPosition(o, dt, MaxOpens)
  \/ \E positionId \in Ids : ClosePosition(positionId)
  \/ CloseAllPositions

SpecStrict == Init /\ [][NextStrict]_vars

\* The two App variants side by side on one input sequence: the account
\* (balance, positions) is the margin-reserved engine's, twin is the
\* mark-to-close engine's.  Both start from the same balance; the clock
\* advances between two opens.
InitSide ==
  /\ variant = "reserved"
  /\ balance \in InitialBalances
  /\ positions = <<>>
  /\ prices = initialPrices
  /\ clock = 0
  /\ opened = 0
  /\ lastOp = NoOp
  /\ twin = [balance |-> balance, positions |-> <<>>, agree |-> TRUE]
  /\ saved = NoSnapshot
  /\ feed = initialFeed("coingecko")
  /\ Surroundings

SidePriceTick(snapshot) ==
  /\ LET r == tick("reserved", balance, positions, snapshot)
         t == tick("markToClose", twin.balance, twin.positions, snapshot)
     IN  /\ prices' = snapshot
         /\ balance' = r.balance
         /\ positions' = r.positions
         /\ twin' = [twin EXCEPT !.balance = t.balance, !.positions = t.positions]
         /\ lastOp' = [op |-> "tick", res |-> "tick", threw |-> FALSE,
                       closed |-> r.closed]
  /\ UNCHANGED <<fallbackPrices, rendered, funding, feed, saved, variant, clock, opened>>

SideOpenPosition(o, maxOpens) ==
  /\ opened < maxOpens
  /\ LET now == clock + 1
         r == openPosition("reserved", balance, positions, prices, o, now)
         t == openPosition("markToClose", twin.balance, twin.positions, prices, o, now)
         any == r.res = "opened" \/ t.res = "opened"
     IN  /\ clock' = IF any THEN now ELSE clock
         /\ opened' = IF any THEN opened + 1 ELSE opened
         /\ balance' = r.balance
         /\ positions' = r.positions
         /\ twin' = [balance |-> t.balance, positions |-> t.positions,
                     agree |-> twin.agree /\ r.res = t.res]
         /\ lastOp' = [op |-> "open", res |-> r.res, threw |-> FALSE,
                       closed |-> <<>>]
  /\ UNCHANGED <<fallbackPrices, rendered, funding, feed, saved, variant, prices>>

SideClosePosition(positionId) ==
  /\ LET r == closePosition("reserved", balance, positions, positionId)
         t == closePosition("markToClose", twin.balance, twin.positions, positionId)
     IN  /\ balance' = r.balance
         /\ positions' = r.positions
         /\ twin' = [twin EXCEPT !.balance = t.balance, !.positions = t.positions]
         /\ lastOp' = [op |-> "close", res |-> r.res, threw |-> r.threw,
                       closed |-> r.closed]
  /\ UNCHANGED <<fallbackPrices, rendered, funding, feed, saved, variant, prices, clock, opened>>

SideCloseAllPositions ==
  /\ LET r == closeAllPositions("reserved", balance, positions)
         t == closeAllPositions("markToClose", twin.balance, twin.positions)
     IN  /\ balance' = r.balance
         /\ positions' = r.positions
         /\ twin' = [twin EXCEPT !.balance = t.balance, !.positions = t.positions]
         /\ lastOp' = [op |-> "closeAll", res |-> r.res, threw |-> r.threw,
                       closed |-> r.closed]
  /\ UNCHANGED <<fallbackPrices, rendered, funding, feed, saved, variant, prices, clock, opened>>

NextSide ==
  \/ \E snapshot \in PriceSnapshots : SidePriceTick(snapshot)
  \/ \E o \in PairOrders : SideOpenPosition(o, MaxOpens + 1)
  \/ \E positionId \in Ids : SideClosePosition(positionId)
  \/ SideCloseAllPositions

SpecSide == InitSide /\ [][NextSide]_vars

\* The feed on its own: fetches start, and each ends in a failure or in a
\* response body.  Date.now() advances between two responses.
InitFeed ==
  /\ variant = "reserved"
  /\ balance = Rat(1000)
  /\ positions = <<>>
  /\ prices = initialPrices
  /\ clock = 0
  /\ opened = 0
  /\ lastOp = NoOp
  /\ twin = NoTwin
  /\ saved = NoSnapshot
  /\ feed \in {initialFeed(version) : version \in FeedVersions}
  /\ Surroundings

FeedFrame ==
  UNCHANGED <<variant, balance, positions, prices, clock, opened, lastOp, twin, saved,
              fallbackPrices, rendered, funding>>

FetchStart ==
  /\ feed.started < MaxFetches
  /\ Len(feed.inFlight) < MaxInFlight
  /\ feed' = fetchStart(feed)
  /\ FeedFrame

FetchFailed(i, failure) ==
  /\ i \in 1..Len(feed.inFlight)
  /\ failure \in Failures(feed.version)
  /\ feed' = fetchFailed(feed, i, failure)
  /\ FeedFrame

FetchSucceeded(i, body) ==
  /\ i \in 1..Len(feed.inFlight)
  /\ feed' = fetchSucceeded(feed, i, body)
  /\ FeedFrame

NextFeed ==
  \/ FetchStart
  \/ \E i \in 1..MaxInFlight, failure \in {"networkError", "notOk", "apiError"} :
       FetchFailed(i, failure)
  \/ \E i \in 1..MaxInFlight, body \in Bodies : FetchSucceeded(i, body)

SpecFeed == InitFeed /\ [][NextFeed]_vars


\* The App on the live feed.  prices is what the render selects: the live
\* prices once all three are set, the fallback prices otherwise.
selectPrices(livePrices, fallback) ==
  IF Truthy(livePrices.BTC) /\ Truthy(livePrices.ETH) /\ Truthy(livePrices.SOL)
  THEN livePrices ELSE fallback

InitLive ==
  /\ InitFeed
  /\ prices = selectPrices(feed.prices, fallbackPrices)

\* The polls the App's run of the hook makes.
MaxLiveFetches == 2

\* The poll interval fires.
LiveFetchStart ==
  /\ feed.started < MaxLiveFetches
  /\ FetchStart

\* A response arrives: the hook's state is updated, the render selects the
\* prices, and the effect on [prices] runs when they are a new object.
LiveFetchSucceeded(i, body) ==
  /\ i \in 1..Len(feed.inFlight)
  /\ feed' = fetchSucceeded(feed, i, body)
  /\ prices' = selectPrices(feed'.prices, fallbackPrices)
  /\ LET r == IF prices' = feed'.prices
              THEN tick(variant, balance, positions, prices')
              ELSE [balance |-> balance, positions |-> positions, closed |-> <<>>]
     IN  /\ balance' = r.balance
         /\ positions' = r.positions
         /\ lastOp' = [op |-> "tick", res |-> "live", threw |-> FALSE,
                       closed |-> r.closed]
  /\ UNCHANGED <<fallbackPrices, rendered, funding, twin, variant, clock, opened>>
  /\ AutoSave

\* The jitter interval: it moves the fallback prices while a live price is
\* missing (Math.random() is any of the snapshots).
FallbackJitter(snapshot) ==
  /\ ~(Truthy(feed.prices.BTC) /\ Truthy(feed.prices.ETH) /\ Truthy(feed.prices.SOL))
  /\ fallbackPrices' = snapshot
  /\ prices' = selectPrices(feed.prices, fallbackPrices')
  /\ LET r == tick(variant, balance, positions, prices')
     IN  /\ balance' = r.balance
         /\ positions' = r.positions
         /\ lastOp' = [op |-> "tick", res |-> "fallback", threw |-> FALSE,
                       closed |-> r.closed]
  /\ UNCHANGED <<rendered, funding, feed, twin, variant, clock, opened>>
  /\ AutoSave

NextLive ==
  \/ LiveFetchStart
  \/ \E i \in 1..MaxInFlight, failure \in {"networkError", "notOk", "apiError"} :
       FetchFailed(i, failure)
  \/ \E i \in 1..MaxInFlight, body \in Bodies : LiveFetchSucceeded(i, body)
  \/ \E snapshot \in PriceSnapshots : FallbackJitter(snapshot)
  \/ \E o \in MarketOrders, dt \in Elapsed : OpenPosition(o, dt, MaxOpens)

SpecLive == InitLive /\ [][NextLive]_vars

----------------------------------------------------------------------------
(* Properties                                                              *)

AppVariants == {"reserved", "markToClose"}

Last(seq) == seq[Len(seq)]
Opened == lastOp.op = "open" /\ lastOp.res = "opened"
Ticked == lastOp.op = "tick"
Closed == lastOp.closed
ClosedIdx == 1..Len(lastOp.closed)

\* The trigger conditions and the raw PnL as the specification states them.
TpCondition(p, price) ==
  /\ Truthy(p.takeProfit)
  /\ IF p.direction = "LONG" THEN RLe(p.takeProfit, price) ELSE RLe(price, p.takeProfit)
SlCondition(p, price) ==
  /\ Truthy(p.stopLoss)
  /\ IF p.direction = "LONG" THEN RLe(price, p.stopLoss) ELSE RLe(p.stopLoss, price)
RawPnl(p, price) ==
  LET moved == RDiv(RMul(RSub(price, p.entryPrice), p.size), p.entryPrice)
  IN  IF p.direction = "LONG" THEN moved ELSE RNeg(moved)

\* The liquidation price as the specification states it.
ExpectedLiquidationPrice(p) ==
  IF p.direction = "LONG" THEN RSub(p.entryPrice, RDiv(p.entryPrice, p.leverage))
  ELSE RAdd(p.entryPrice, RDiv(p.entryPrice, p.leverage))

\* C1: every position created by openPosition in either App variant has
\* liquidationPrice = entryPrice * (1 - 1/leverage) when LONG and
\* entryPrice * (1 + 1/leverage) when SHORT, and two orders that differ only in
\* riskAmount (same entryPrice, direction and leverage) give the same
\* liquidationPrice (compared wherever an open has just been accepted).
C1_LiquidationPrice ==
  variant \in AppVariants =>
    /\ \A i \in 1..Len(positions) :
         positions[i].liquidationPrice = ExpectedLiquidationPrice(positions[i])
    /\ Opened =>
         \A o \in Orders, ps \in sizes :
           LET r1 == openPosition(variant, balance, positions, prices, o, clock + 1)
               r2 == openPosition(variant, balance, positions, prices,
                                  [o EXCEPT !.positionSize = ps], clock + 1)
           IN  (r1.res = "opened" /\ r2.res = "opened") =>
                 /\ Last(r1.positions).liquidationPrice
                      = ExpectedLiquidationPrice(Last(r1.positions))
                 /\ Last(r1.positions).liquidationPrice
                      = Last(r2.positions).liquidationPrice
\* A SHORT limit order has just been opened next to nothing else, and an order
\* with another riskAmount would have been accepted in its place.
C1_Witness ==
  /\ variant \in AppVariants /\ Opened
  /\ Last(positions).direction = "SHORT"
  /\ Last(positions).entryPrice # prices[Last(positions).market]
  /\ Last(positions).liquidationPrice = Rat(135000)

\* C2: whenever the per-tick pass liquidates a position (App variants), the PnL
\* it settles for it is exactly -riskAmount, however far the price overshot:
\* the stored PnL is -riskAmount, and a tick that only liquidates one position
\* changes the balance by initialMargin - riskAmount (reserved) or -riskAmount
\* (mark-to-close).
C2_LiquidationSettlesRisk ==
  [][ (lastOp'.op = "tick" /\ variant \in AppVariants) =>
        /\ \A i \in 1..Len(lastOp'.closed) :
             lastOp'.closed[i].liquidated =>
               lastOp'.closed[i].unrealizedPnL = RNeg(lastOp'.closed[i].riskAmount)
        /\ (Len(lastOp'.closed) = 1 /\ lastOp'.closed[1].liquidated) =>
             balance' = IF variant = "reserved"
                        THEN RSub(RAdd(balance, lastOp'.closed[1].initialMargin),
                                  lastOp'.closed[1].riskAmount)
                        ELSE RSub(balance, lastOp'.closed[1].riskAmount) ]_vars
\* A tick liquidated a position at a price strictly beyond its liquidation price.
C2_Witness ==
  /\ variant \in AppVariants /\ Ticked
  /\ \E i \in ClosedIdx :
       /\ Closed[i].liquidated
       /\ Closed[i].direction = "LONG"
       /\ RLt(prices[Closed[i].market], Closed[i].liquidationPrice)
       /\ RLt(RawPnl(Closed[i], prices[Closed[i].market]), Closed[i].unrealizedPnL)

\* C3: bounded loss: whatever closes a position (take-profit, stop-loss,
\* liquidation, closePosition, closeAllPositions), the PnL settled for it is
\* >= -riskAmount.
C3_BoundedLoss ==
  variant \in AppVariants =>
    \A i \in ClosedIdx : RLe(RNeg(Closed[i].riskAmount), Closed[i].unrealizedPnL)

\* C4: in one tick, a position whose take-profit condition holds at the tick
\* price closes by take-profit, also when its stop-loss condition holds too; a
\* position closes by stop-loss only when take-profit did not fire.
C4_TakeProfitFirst ==
  Ticked =>
    /\ \A i \in 1..Len(positions) :
         ~TpCondition(positions[i], prices[positions[i].market])
    /\ \A i \in ClosedIdx :
         LET p == Closed[i]
             price == prices[p.market]
         IN  /\ TpCondition(p, price)
                  => p.closedByTP /\ ~p.closedBySL /\ ~p.liquidated
             /\ p.closedBySL => ~TpCondition(p, price) /\ SlCondition(p, price)
\* A tick closed by take-profit a position whose stop-loss condition held too.
C4_Witness ==
  /\ Ticked
  /\ \E i \in ClosedIdx :
       /\ Closed[i].closedByTP
       /\ TpCondition(Closed[i], prices[Closed[i].market])
       /\ SlCondition(Closed[i], prices[Closed[i].market])

\* C5: in one tick (App variants), a position whose take-profit or stop-loss
\* condition holds is closed by that trigger with the unclamped PnL at the tick
\* price and is not marked liquidated, also when pnl <= -riskAmount; only a
\* position with neither condition is liquidated.
C5_TriggersBeforeLiquidation ==
  (Ticked /\ variant \in AppVariants) =>
    \A i \in ClosedIdx :
      LET p == Closed[i]
          price == prices[p.market]
      IN  /\ (TpCondition(p, price) \/ SlCondition(p, price))
               => /\ ~p.liquidated
                  /\ p.closedByTP \/ p.closedBySL
                  /\ p.unrealizedPnL = RawPnl(p, price)
          /\ p.liquidated => ~TpCondition(p, price) /\ ~SlCondition(p, price)
\* SHORT entry 3500, leverage 10, riskAmount 50, stopLoss 3600: closed by
\* stop-loss, not liquidated, at a price where pnl <= -riskAmount holds too.
C5_Witness ==
  /\ Ticked /\ variant \in AppVariants
  /\ \E i \in ClosedIdx :
       LET p == Closed[i]
       IN  /\ p.closedBySL /\ ~p.liquidated
           /\ p.direction = "SHORT" /\ p.entryPrice = Rat(3500)
           /\ p.leverage = Rat(10) /\ p.riskAmount = Rat(50)
           /\ p.stopLoss = Rat(3600)
           /\ RLe(p.unrealizedPnL, RNeg(p.riskAmount))

Orderings(n) ==
  { f \in [1..n -> 1..n] : \A i, j \in 1..n : f[i] = f[j] => i = j }
RECURSIVE CloseEach(_, _, _, _)
CloseEach(v, bal, poss, ids) ==
  IF ids = <<>> THEN [balance |-> bal, positions |-> poss]
  ELSE LET r == closePosition(v, bal, poss, Head(ids))
       IN  CloseEach(v, r.balance, r.positions, Tail(ids))

\* C7: closeAllPositions leaves an empty open set and the same final balance as
\* calling closePosition once for each open position, in every permutation of
\* the order, with no tick in between (App variants).
C7_CloseAllIsSequentialClose ==
  variant \in AppVariants =>
    LET all == closeAllPositions(variant, balance, positions)
        n == Len(positions)
    IN  /\ all.positions = <<>>
        /\ \A f \in Orderings(n) :
             LET each == CloseEach(variant, balance, positions,
                                   [i \in 1..n |-> positions[f[i]].id])
             IN  /\ each.positions = <<>>
                 /\ each.balance = all.balance

\* C8: openPosition is rejected, leaving balance and open set unchanged,
\* whenever the balance is below the capital the settlement policy requires;
\* in the margin-reserved variant that is the riskAmount deducted at open, so
\* every accepted open there has balance >= riskAmount beforehand.
C8_RejectsInsufficientBalance ==
  [][ (lastOp'.op = "open" /\ variant = "reserved") =>
        \A o \in Orders, dt \in Elapsed :
          (OpenPosition(o, dt, MaxOpens) /\ RLt(balance, Rat(o.positionSize)))
            => /\ lastOp'.res # "opened"
               /\ balance' = balance
               /\ positions' = positions ]_vars

\* C9: openPosition for a market that has no current price is rejected:
\* balance and the open set are unchanged and no position is created.
C9_RejectsMissingPrice ==
  [][ lastOp'.op = "open" =>
        \A o \in Orders, dt \in Elapsed :
          (OpenPosition(o, dt, MaxOpens) /\ ~Truthy(prices[o.market]))
            => /\ lastOp'.res = "noPrice"
               /\ balance' = balance
               /\ positions' = positions ]_vars
\* An open has just been rejected for want of a price.
C9_Witness ==
  /\ lastOp.op = "open" /\ lastOp.res = "noPrice"
  /\ \E m \in Markets : ~Truthy(prices[m])
  /\ positions = <<>>

\* What one step may do to the open set and the balance when it opens.
AtomicOpenStep ==
      variant \in AppVariants =>
        /\ \A i \in 1..Len(positions') :
             positions'[i].size
               = RMul(positions'[i].riskAmount, positions'[i].leverage)
        /\ lastOp'.op = "open" =>
             \A o \in Orders, dt \in Elapsed :
               OpenPosition(o, dt, MaxOpens) =>
                 IF lastOp'.res = "opened"
                 THEN LET p == Last(positions')
                      IN  /\ positions' = Append(positions, p)
                          /\ p.market = o.market /\ p.direction = o.direction
                          /\ p.entryPrice = IF o.orderType = "LIMIT"
                                            THEN o.limitPrice
                                            ELSE prices[o.market]
                          /\ p.riskAmount = Rat(o.positionSize)
                          /\ p.size = RMul(Rat(o.positionSize), p.leverage)
                          /\ p.unrealizedPnL = Zero
                          /\ balance' = IF variant = "reserved"
                                        THEN RSub(balance, Rat(o.positionSize))
                                        ELSE balance
                 ELSE (balance' = balance /\ positions' = positions)

\* C10: a successful openPosition (App variants) appends, in one step, exactly
\* one position with entryPrice = the current market price (market order) or
\* the limit price (limit order), size = riskAmount * leverage and
\* unrealizedPnL = 0, and in the same step the balance decreases by exactly
\* riskAmount (margin-reserved) or is unchanged (mark-to-close); a rejected
\* open changes neither; size = riskAmount * leverage holds for every open
\* position after every step.
C10_AtomicOpen == [][AtomicOpenStep]_vars
\* A limit order has just been opened in the margin-reserved variant, below
\* the market price, next to nothing else.
C10_Witness ==
  /\ variant = "reserved" /\ Opened
  /\ Len(positions) = 1
  /\ positions[1].entryPrice = Rat(90000)
  /\ positions[1].size = Rat(200)
  /\ prices.BTC # Rat(90000)
  /\ balance = Rat(900)

\* What the settlement policy credits for one position closed by a tick, as
\* the specification states it.
ExpectedCredit(p) ==
  IF variant = "reserved" THEN RAdd(p.initialMargin, p.unrealizedPnL)
  ELSE p.unrealizedPnL

\* C11: every position that reaches a terminal state in a tick (App variants)
\* is credited to the balance exactly once (margin-reserved: initialMargin +
\* settled PnL; mark-to-close: settled PnL) and leaves the open set in the same
\* step, also when the tick's state-update function is run again.
C11_SettledOnceWithRemoval ==
  [][ (lastOp'.op = "tick" /\ variant \in AppVariants) =>
        /\ Len(positions') + Len(lastOp'.closed) = Len(positions)
        /\ \A i \in 1..Len(positions') : ~IsClosed(positions'[i])
        /\ balance' = RAdd(balance,
                           Sum([i \in 1..Len(lastOp'.closed) |->
                                  ExpectedCredit(lastOp'.closed[i])])) ]_vars

\* The sum of initialMargin over a list of positions.
MarginHeld(poss) == Sum([i \in 1..Len(poss) |-> poss[i].initialMargin])

\* The two engines hold the same open positions with the same PnL, and the
\* margin-reserved balance plus the margin it holds is the mark-to-close
\* balance.
SameAccount ==
  /\ positions = twin.positions
  /\ RAdd(balance, MarginHeld(positions)) = twin.balance

C14_LeverageInRange ==
  variant \in AppVariants =>
    \A i \in 1..Len(positions) :
      /\ RLe(Rat(MinLeverage), positions[i].leverage)
      /\ RLe(positions[i].leverage,
             Rat(IF variant = "reserved" THEN MaxLeverageInput
                 ELSE MaxLeverageSlider))

\* The price has reached the stored liquidation price, as the specification
\* states it.
ReachedLiquidationPrice(p, price) ==
  IF p.direction = "LONG" THEN RLe(price, p.liquidationPrice)
  ELSE RLe(p.liquidationPrice, price)
NoTriggers(p) == ~Truthy(p.takeProfit) /\ ~Truthy(p.stopLoss)

\* C13: for a position with no takeProfit and no stopLoss (App variants), a
\* tick liquidates it if and only if the tick price has reached its stored
\* liquidationPrice (LONG: price <= liquidationPrice; SHORT: price >=
\* liquidationPrice).
C13_LiquidatedIffPriceReached ==
  (Ticked /\ variant \in AppVariants) =>
    /\ \A i \in 1..Len(positions) :
         NoTriggers(positions[i]) =>
           ~ReachedLiquidationPrice(positions[i], prices[positions[i].market])
    /\ \A i \in ClosedIdx :
         NoTriggers(Closed[i]) =>
           /\ Closed[i].liquidated
           /\ ReachedLiquidationPrice(Closed[i], prices[Closed[i].market])

\* C15: the ids of the open positions are pairwise distinct, and a position
\* opened later (further back in the open list) has a strictly larger id than
\* any position opened earlier, also for two opens at the same clock reading.
C15_UniqueIncreasingIds ==
  \A i, j \in 1..Len(positions) : i < j => positions[i].id < positions[j].id

\* A position without its mark: what must never change once it is created.
Core(p) == [p EXCEPT !.unrealizedPnL = Zero]
\* after is before with some positions taken out, marks aside.
KeptFrom(after, before) ==
  \E f \in [1..Len(after) -> 1..Len(before)] :
    /\ \A i, j \in 1..Len(after) : i < j => f[i] < f[j]
    /\ \A i \in 1..Len(after) : Core(after[i]) = Core(before[f[i]])
TerminalOutcomes(p) ==
  (IF p.closedByTP THEN 1 ELSE 0) + (IF p.closedBySL THEN 1 ELSE 0)
    + (IF p.liquidated THEN 1 ELSE 0)
\* What a step may do to the open set and to the closed positions.
OneOutcomeStep ==
  variant \in AppVariants =>
    /\ \A i \in 1..Len(positions') : TerminalOutcomes(positions'[i]) = 0
    /\ lastOp'.op = "tick" =>
         \A i \in 1..Len(lastOp'.closed) :
           TerminalOutcomes(lastOp'.closed[i]) = 1
    /\ lastOp'.op = "open" =>
         \/ positions' = positions
         \/ /\ Len(positions') = Len(positions) + 1
            /\ positions = SubSeq(positions', 1, Len(positions))
            /\ Last(positions').unrealizedPnL = Zero
            /\ Last(positions').id >= clock
    /\ lastOp'.op # "open" =>
         /\ KeptFrom(positions', positions)
         /\ \A i \in 1..Len(lastOp'.closed) :
              \E k \in 1..Len(positions) :
                [Core(lastOp'.closed[i]) EXCEPT !.closedByTP = FALSE,
                   !.closedBySL = FALSE, !.liquidated = FALSE]
                  = Core(positions[k])
         /\ balance' = RAdd(balance,
                            Sum([i \in 1..Len(lastOp'.closed) |->
                                   ExpectedCredit(lastOp'.closed[i])]))

C17_QuietTickFrame ==
  [][ (lastOp'.op = "tick" /\ lastOp'.closed = <<>> /\ variant \in AppVariants) =>
        /\ balance' = balance
        /\ Len(positions') = Len(positions)
        /\ \A i \in 1..Len(positions) :
             Core(positions'[i]) = Core(positions[i]) ]_vars
\* A tick at a new price has revalued an open position without closing it.
C17_Witness ==
  /\ variant \in AppVariants /\ Ticked /\ Closed = <<>>
  /\ Len(positions) = 1
  /\ positions[1].unrealizedPnL # Zero
  /\ prices # initialPrices

\* What every step leaves in the saved snapshot, and what a reload makes of it.
RoundTripStep ==
  variant \in AppVariants =>
    /\ saved' = Stringify(balance', positions')
    /\ getInitialState(saved').balance = balance'
    /\ getInitialState(saved').positions = positions'
    /\ lastOp'.op = "reload" =>
         (balance' = balance /\ positions' = positions)

FailedStep ==
  /\ feed'.last.kind = "failed"
  /\ Len(feed'.inFlight) < Len(feed.inFlight)

\* What a failed fetch keeps: prices, history, high/low and the time of the
\* last successful fetch; the error field takes the failure's message.
FailureKeeps ==
  /\ feed'.prices = feed.prices
  /\ feed'.priceHistory = feed.priceHistory
  /\ feed'.highLow = feed.highLow
  /\ feed'.lastFetchTime = feed.lastFetchTime
  /\ feed'.error = errorMessage(feed.version, feed'.last.failure)
  /\ feed'.error # NoError

FailedFetchStep_AsStated ==
  FailedStep => (FailureKeeps /\ feed'.isLoading = feed.isLoading)

FailedFetchStep ==
  FailedStep => (FailureKeeps /\ feed'.isLoading = FALSE)

\* C19 as stated: a failed price fetch (network error, non-OK response, API
\* error) leaves prices and priceHistory exactly as they were, sets only the
\* error field and does not advance lastFetchTime.
C19_FailedFetch_AsStated == [][FailedFetchStep_AsStated]_vars

\* C19: a failed price fetch (network error, non-OK response, API error)
\* leaves prices, priceHistory and lastFetchTime exactly as they were; it sets
\* the error field and clears isLoading, and changes nothing else.
C19_FailedFetch == [][FailedFetchStep]_vars

C19_Witness ==
  /\ feed.last.kind = "failed"
  /\ feed.error # NoError
  /\ \A s \in Markets : feed.prices[s] # Null /\ Len(feed.priceHistory[s]) > 0
  /\ feed.lastFetchTime # Null

\* The most recent n elements of a sequence, oldest first.
MostRecent(seq, n) ==
  LET k == IF Len(seq) < n THEN Len(seq) ELSE n
  IN  [i \in 1..k |-> seq[Len(seq) - k + i]]

\* C20: after any sequence of successful and failed fetches, each symbol's
\* priceHistory has at most maxHistoryPoints entries and equals the most
\* recent maxHistoryPoints fetched prices of that symbol in arrival order.
C20_BoundedRecentHistory ==
  \A s \in Markets :
    /\ Len(feed.priceHistory[s]) <= maxHistoryPoints
    /\ feed.priceHistory[s] = MostRecent(feed.fetched[s], maxHistoryPoints)

\* The same for the symbols that were never quoted at 0.
C20_NonZeroQuotes ==
  \A s \in Markets :
    (\A i \in 1..Len(feed.fetched[s]) : feed.fetched[s][i] # Zero) =>
      /\ Len(feed.priceHistory[s]) <= maxHistoryPoints
      /\ feed.priceHistory[s] = MostRecent(feed.fetched[s], maxHistoryPoints)

C20_SlidingWitness ==
  /\ Len(feed.fetched["BTC"]) > maxHistoryPoints
  /\ feed.priceHistory["BTC"] # SubSeq(feed.fetched["BTC"], 1, maxHistoryPoints)
  /\ feed.last.kind = "failed"

\* A tick step, and the result of applying the same snapshot once more.
IdempotentTickStep ==
  lastOp'.op = "tick" =>
    LET again == tick(variant, balance', positions', prices')
    IN  /\ again.balance = balance'
        /\ again.positions = positions'
        /\ again.closed = <<>>

\* C22: a tick is an idempotent input: applying the same price snapshot twice
\* in a row, with no command in between, leaves the same balance and the same
\* open set (with the same unrealizedPnL values) as applying it once.
C22_TickIdempotent == [][IdempotentTickStep]_vars
\* A tick at a new price closed one of two positions and revalued the other.
C22_Witness ==
  /\ Ticked /\ Len(Closed) = 1 /\ Len(positions) = 1
  /\ positions[1].unrealizedPnL # Zero
  /\ prices # initialPrices

C26_OpenSetAfterTick ==
  (Ticked /\ variant \in AppVariants) =>
    \A i \in 1..Len(positions) :
      LET p == positions[i]
          price == prices[p.market]
      IN  /\ RLt(RNeg(p.riskAmount), p.unrealizedPnL)
          /\ ~TpCondition(p, price)
          /\ ~SlCondition(p, price)
\* A position is still open after a tick at a loss smaller than its riskAmount.
C26_Witness ==
  /\ Ticked /\ variant \in AppVariants
  /\ \E i \in 1..Len(positions) :
       /\ RLt(positions[i].unrealizedPnL, Zero)
       /\ positions[i].leverage = Rat(2)

\* C28: starting from a non-negative balance, the balance is never negative
\* after any sequence of openPosition, closePosition, closeAllPositions and
\* price ticks, in both the margin-reserved and the mark-to-close variant.
C28_BalanceNeverNegative ==
  variant \in AppVariants => RLe(Zero, balance)

\* A tick step and the positions whose market has no price in its snapshot.
SkipsMissingPriceStep ==
  lastOp'.op = "tick" =>
    \A i \in 1..Len(positions) :
      prices'[positions[i].market] = Null =>
        /\ \E k \in 1..Len(positions') : positions'[k] = positions[i]
        /\ \A j \in 1..Len(lastOp'.closed) :
             lastOp'.closed[j].id # positions[i].id
        /\ Len(positions) = 1 => balance' = balance

C24_NoPriceAtAll ==
  [][ (lastOp'.op = "tick" /\ prices' = noPrices) =>
        (balance' = balance /\ positions' = positions) ]_vars

\* C25: in useTradingEngine, while at least one position stays open, a funding
\* payment is applied to the balance every FUNDING_INTERVAL, also while price
\* ticks arrive every 1.5 s: no open set goes FUNDING_INTERVAL ms without a
\* payment, and a payment subtracts the sum over the open positions of
\* size * FUNDING_RATE * (+1 for LONG, -1 for SHORT).
C25_FundingApplied ==
  /\ (variant = "engine" /\ Len(positions) > 0)
       => funding.unfunded < FUNDING_INTERVAL
  /\ lastOp.res = "funded" => funding.unfunded = 0
\* The funding interval has fired (with nothing open).
C25_Witness ==
  /\ variant = "engine" /\ opened = 0
  /\ funding.since = FUNDING_INTERVAL - PRICE_INTERVAL
\* No funding payment is ever made.
C25_NeverFunded == lastOp.res # "funded"

\* The margin the settlement policy holds back for the open positions.
Reserved(poss) == IF variant = "reserved" THEN MarginHeld(poss) ELSE Zero
\* The PnL settled by a step.
SettledPnl(op) == Sum([i \in 1..Len(op.closed) |-> op.closed[i].unrealizedPnL])
ConservationStep ==
  variant \in AppVariants =>
    RAdd(balance', Reserved(positions'))
      = RAdd(RAdd(balance, Reserved(positions)), SettledPnl(lastOp'))

\* C27: ledger conservation (App variants): the balance equals the initial
\* balance plus the PnL settled for the positions closed so far, minus
\* (margin-reserved variant only) the initialMargin of the positions currently
\* open.  It holds initially with nothing settled and nothing open, and every
\* open, close, close-all, tick and reload changes balance + reserved margin
\* by exactly the PnL the step settles.
C27_LedgerConservation == [][ConservationStep]_vars
\* One of two positions has just been closed by hand at a PnL other than 0.
C27_Witness ==
  /\ variant \in AppVariants
  /\ lastOp.op = "close" /\ lastOp.res = "closed"
  /\ Closed[1].unrealizedPnL # Zero
  /\ Len(positions) = 1

\* A closing step credits only positions that are open when it starts.
CreditsOpenOnlyStep ==
  (variant \in AppVariants /\ lastOp'.op \in {"close", "closeAll"}) =>
    /\ \A j \in 1..Len(lastOp'.closed) :
         \E k \in 1..Len(positions) : positions[k].id = lastOp'.closed[j].id
    /\ positions = <<>> => balance' = balance

\* C29: a position is credited to the balance at most once across all
\* closing paths: closePosition or closeAllPositions running from a positions
\* snapshot taken before a tick that has already settled and removed the
\* position does not credit that position's margin or PnL a second time.
C29_CreditedAtMostOnce == [][CreditsOpenOnlyStep]_vars
\* closePosition ran from a render older than the tick that closed the
\* position.
C29_Witness ==
  /\ variant \in AppVariants
  /\ lastOp.op = "close" /\ lastOp.res = "closed"
  /\ opened = 1 /\ positions = <<>>
  /\ Closed[1].unrealizedPnL = Zero
  /\ prices # initialPrices

\* What a step may make of a price of 0: the feed records it, and openPosition
\* does not take it for a missing price.
ZeroIsAPriceStep ==
  /\ (feed'.last.kind = "ok" /\ feed'.now # feed.now) =>
       \A s \in Markets :
         (feed'.last.body[s] # NoQuote /\ parseFloat(feed'.last.body[s]) = Zero)
           => feed'.prices[s] = Zero
  /\ lastOp'.op = "open" =>
       \A o \in Orders, dt \in Elapsed :
         (OpenPosition(o, dt, MaxOpens) /\ prices[o.market] # Null)
           => lastOp'.res # "noPrice"

\* C21: the feed and the engine distinguish a symbol with no price yet from a
\* symbol whose price is zero: a fetched price of 0 is recorded as that
\* symbol's price, and openPosition is rejected as 'no price available' only
\* when the symbol has no price, not when its price is 0.
C21_ZeroIsAPrice == [][ZeroIsAPriceStep]_vars
\* A response has quoted ETH at 0.
C21_Witness ==
  /\ feed.last.kind = "ok"
  /\ feed.last.body.ETH = Quote(0, 0)

\* The feed has a price for every market.
LiveComplete == \A s \in Markets : feed.prices[s] # Null

\* C30: the engine's price source never switches back: once the live feed has
\* a price for all three markets (it never loses one again), the engine uses
\* the live feed's last known price for every market, also after failed or
\* partial fetches; before that, all three markets use the fallback prices.
C30_NeverSwitchesBack ==
  IF LiveComplete THEN prices = feed.prices ELSE prices = fallbackPrices
\* The same in the runs in which no response has quoted a price of 0.
C30_NonZeroQuotes ==
  (\A s \in Markets : \A i \in 1..Len(feed.fetched[s]) : feed.fetched[s][i] # Zero)
    => C30_NeverSwitchesBack
\* The engine is on live prices after a fetch that failed.
C30_Witness ==
  /\ LiveComplete /\ prices = feed.prices
  /\ feed.last.kind = "failed"
  /\ prices # fallbackPrices

====
